---- MODULE Spec2Model ----
(***************************************************************************)
(* GetVybz backend: the escrow / transaction-ledger engine.                *)
(*                                                                         *)
(* The model covers src/services/escrowService.js (initializeEscrow,       *)
(* handleWebhook, releaseFunds, refundFunds, reconcileEscrows, the helper  *)
(* recordTransaction), src/services/escrowSettlementService.js,            *)
(* src/services/disputeService.js, src/services/reconciliationService.js   *)
(* and the /api/webhooks route handlers, over the Booking, Escrow,         *)
(* Transaction, Dispute and ReconciliationReport collections.              *)
(*                                                                         *)
(* A service call is a process p: it starts when p is idle, and a call     *)
(* that runs inside a database session ends with a separate commit step,   *)
(* so that two calls can overlap.  Under Spec there is one process (calls  *)
(* run one after the other); under ConcSpec two calls can overlap.         *)
(* SettleSpec adds the settlement policy to Spec, DisputeSpec the dispute  *)
(* service, ReconSpec the reconciliation run over a store that may hold    *)
(* Transactions left behind by earlier payments.                           *)
(***************************************************************************)
EXTENDS Integers, Sequences, FiniteSets, TLC

\* ------------------------------------------------------------ bounds
NumBookings == 1     \* bookings that exist; id 0 is an id of no booking
NumRefs == 2         \* payment references the gateway can issue
MaxClock == 2        \* calls that change the store or reach the gateway, per behaviour

Bookings == 1..NumBookings
BookingIds == 0..NumBookings
\* amounts: RequestedAmount is what a caller or the gateway names, TotalAmount the
\* booking's totalAmount, 0 stands for a missing (falsy) amount
RequestedAmount == 1
TotalAmount == 2
NumOrphans == 3      \* Transactions left behind by bookings that no longer exist
MAX_ISSUES == 2      \* issues stored per report: 500 in the source, scaled down
Amounts == {RequestedAmount}
AmountsOrNone == {0, RequestedAmount}
\* overlapping calls under ConcSpec
Procs == {1, 2}

\* ------------------------------------------------------------ values
NoRef == [k |-> "none", n |-> 0]
PayRef(i) == [k |-> "pay", n |-> i]
PayRefs == {PayRef(i) : i \in 1..NumRefs}

\* docs: how many Escrow documents the collection holds for the booking; the other
\* fields are those of the document Escrow.findOne({ bookingId }) returns
NoEscrow == [state |-> "none", amount |-> 0, gatewayReference |-> NoRef,
             reconciled |-> FALSE, docs |-> 0]

Truthy(x) == x # 0
\* JavaScript a || b on amounts (0 is falsy)
Or(a, b) == IF Truthy(a) THEN a ELSE b

VARIABLES
  bookings,   \* Booking collection: [Bookings -> booking document]
  escrows,    \* Escrow collection, unique on bookingId: [Bookings -> document]
  ledger,     \* Transaction collection, unique on reference: a set of documents
  gateway,    \* calls made to the payment gateway, per booking
  calls,      \* the service call each process is in
  clock,      \* Date.now()
  last,       \* what the last completed call returned
  disputes,   \* Dispute collection, the dispute of each booking: [Bookings -> document]
  report      \* ReconciliationReport collection: the document of the last run

vars == <<bookings, escrows, ledger, gateway, calls, clock, last, disputes, report>>
db == <<bookings, escrows, ledger>>

NoBooking == [paymentStatus |-> "none", status |-> "none", paymentReleased |-> FALSE,
              escrowAmount |-> 0, totalAmount |-> 0, paymentReference |-> NoRef]

Idle == [pc |-> "idle", op |-> "none", b |-> 0, ref |-> NoRef, ok |-> FALSE,
         amount |-> 0, txSeen |-> "none", loadedE |-> NoEscrow,
         loadedB |-> NoBooking, dirtyE |-> FALSE, dirtyB |-> FALSE, eff |-> FALSE,
         sig |-> TRUE, ev |-> "none"]

\* what a call was given besides its booking: sig, whether the webhook's
\* signature verified; for settleEscrow reviews, how many of customerReviewed and
\* proReviewed are set, completedLongAgo, whether the booking was completed more
\* than the grace period ago, updatedLongAgo, the same for booking.updatedAt;
\* for resolveDispute resolution, "none" for a call without one; for
\* reconcileTransactions limit; for autoSettlePendingEscrows visited, the bookings
\* it called settleEscrow for
NoArg == [sig |-> TRUE, reviews |-> 0, completedLongAgo |-> FALSE,
          updatedLongAgo |-> FALSE, resolution |-> "none", limit |-> 0,
          visited |-> {}]

\* no call has returned, or one is running since the last one returned
NoResult == [op |-> "none", b |-> 0, threw |-> FALSE, success |-> FALSE,
             reason |-> "", ref |-> NoRef, arg |-> NoArg]

\* ------------------------------------------------------------ collections
HasEscrow(b) == escrows[b].state # "none"

\* Transaction.findOne({ reference }): the status of the document, or "none"
TxStatus(l, ref) ==
  IF \E t \in l : t.reference = ref
  THEN (CHOOSE t \in l : t.reference = ref).status
  ELSE "none"

Tx(b, amount, type, status, ref) ==
  [bookingId |-> b, amount |-> amount, type |-> type, status |-> status,
   reference |-> ref]

\* recordTransaction that stores nothing
recordTransaction_skip(l, seen, tx) == l

\* recordTransaction without the lookup by reference: always a new document
recordTransaction_insert(l, seen, tx) == l \cup {tx}

\* recordTransaction: the ledger after the call.  seen is what
\* Transaction.findOne({ reference }) returned in the caller's session
recordTransaction(l, seen, tx) == IF seen = "none" THEN l \cup {tx} ELSE l

\* status: result?.success ? "success" : "failed"
resultStatus(ok) == IF ok THEN "success" ELSE "failed"

\* an insert into a collection that has no unique index
duplicateKey_never(docs) == FALSE

\* bookingId: { unique: true }: the insert of an Escrow for a booking that has
\* docs of them fails with a duplicate key error
duplicateKey(docs) == docs > 0

\* in-flight sessions on booking b learn that another call wrote its documents
MarkDirty(cs, self, b, wroteE, wroteB) ==
  [q \in Procs |->
     IF q # self /\ cs[q].pc # "idle" /\ cs[q].b = b
     THEN [cs[q] EXCEPT !.dirtyE = @ \/ wroteE, !.dirtyB = @ \/ wroteB]
     ELSE cs[q]]

\* no call is between two of its steps
AllIdle == \A q \in Procs : calls[q].pc = "idle"

Finish(cs, self) == [cs EXCEPT ![self] = Idle]

\* Date.now() after a call: later than every reading of an earlier call that
\* changed the store or reached the gateway
Tick(eff) == IF eff THEN clock + 1 ELSE clock

\* document.save(): mongoose writes the paths whose value differs from the
\* value loaded, and leaves the other paths of the stored document alone
SaveDoc(cur, loaded, new) ==
  [f \in DOMAIN cur |-> IF new[f] # loaded[f] THEN new[f] ELSE cur[f]]

Result(op, b, threw, success, reason, ref) ==
  [op |-> op, b |-> b, threw |-> threw, success |-> success, reason |-> reason,
   ref |-> ref, arg |-> NoArg]

\* no ReconciliationReport has been stored
NoReport == [stored |-> FALSE, txChecked |-> 0, escrowsChecked |-> 0,
             totalIssues |-> 0, issues |-> <<>>]

\* no Dispute document for the booking
NoDispute == [status |-> "none", resolution |-> "none"]

\* ------------------------------------------------------------ Init
Init ==
  /\ bookings = [b \in Bookings |->
        [paymentStatus |-> "unpaid", status |-> "pending", paymentReleased |-> FALSE,
         escrowAmount |-> 0, totalAmount |-> TotalAmount,
         paymentReference |-> IF b = 1 THEN PayRef(1) ELSE NoRef]]
  /\ escrows = [b \in Bookings |-> NoEscrow]
  /\ ledger = {}
  /\ gateway = [b \in Bookings |->
        [initialize |-> 0, payout |-> 0, paid |-> 0, refund |-> 0, refunded |-> 0]]
  /\ calls = [p \in Procs |-> Idle]
  /\ clock = 0
  /\ last = NoResult
  /\ disputes = [b \in Bookings |-> NoDispute]
  /\ report = NoReport

\* ------------------------------------------------------------ releaseFunds, refundFunds
\* outcomes of adapter.payout / adapter.refund that the callers handle:
\* { success: true }, a result without success, or a rejected promise (the adapters
\* in the source are placeholders that return { success: true })
AdapterOutcomes == {"success", "failure", "throws"}

\* a guard that also lets a cancelled escrow through
Releasable_wide == {"held", "pending", "disputed", "cancelled"}

\* the guard of releaseFunds and of refundFunds
Releasable == {"held", "pending", "disputed"}

\* a failed payout that leaves the escrow state as it was
releaseState_stuck(ok) == IF ok THEN "released" ELSE "held"

\* escrow.state = payoutResult?.success ? "released" : "disputed"
releaseState(ok) == IF ok THEN "released" ELSE "disputed"

\* a failed refund that leaves the escrow state as it was
refundState_stuck(ok) == IF ok THEN "refunded" ELSE "held"

\* escrow.state = refundResult?.success ? "refunded" : "disputed"
refundState(ok) == IF ok THEN "refunded" ELSE "disputed"

\* the call throws before the gateway is reached: nothing was written in the session
Throw(p, op, b, reason) ==
  /\ last' = Result(op, b, TRUE, FALSE, reason, NoRef)
  /\ calls' = Finish(calls, p)
  /\ clock' = Tick(calls[p].eff)
  /\ UNCHANGED <<db, gateway>>

\* session start, Booking.findById, Escrow.findOne, the guard, adapter.payout
releaseFunds(p) ==
  /\ calls[p].pc = "idle"
  /\ UNCHANGED <<disputes, report>>
  /\ clock < MaxClock
  /\ \E b \in BookingIds :
       IF b = 0 THEN Throw(p, "release", b, "Booking not found")
       ELSE IF ~HasEscrow(b) THEN Throw(p, "release", b, "Escrow record not found")
       ELSE IF escrows[b].state \notin Releasable
            THEN Throw(p, "release", b, "Escrow not in releasable state")
       ELSE \E outcome \in AdapterOutcomes :
            /\ gateway' = [gateway EXCEPT ![b].payout = @ + 1,
                            ![b].paid = @ + (IF outcome = "success" THEN 1 ELSE 0)]
            /\ UNCHANGED db
            /\ IF outcome = "throws"
               THEN /\ last' = Result("release", b, TRUE, FALSE, "payout failed", NoRef)
                    /\ calls' = Finish(calls, p)
                    /\ clock' = clock + 1
               ELSE /\ calls' = [calls EXCEPT ![p] =
                          [pc |-> "commit", op |-> "release", b |-> b,
                           ref |-> [k |-> "REL", n |-> clock],
                           ok |-> (outcome = "success"),
                           amount |-> Or(escrows[b].amount,
                                         Or(bookings[b].escrowAmount, bookings[b].totalAmount)),
                           txSeen |-> TxStatus(ledger, [k |-> "REL", n |-> clock]),
                           loadedE |-> escrows[b], loadedB |-> bookings[b],
                           dirtyE |-> FALSE, dirtyB |-> FALSE, eff |-> TRUE, sig |-> TRUE,
                           ev |-> "none"]]
                    /\ last' = NoResult
                    /\ UNCHANGED clock

\* recordTransaction, escrow.save, booking.save, commitTransaction
releaseCommit(p) ==
  LET c == calls[p]
      b == c.b
      newE == [c.loadedE EXCEPT !.state = releaseState(c.ok)]
      newB == IF c.ok
              THEN [c.loadedB EXCEPT !.paymentStatus = "released", !.status = "completed"]
              ELSE c.loadedB
      wroteB == newB # c.loadedB
      \* escrow.metadata is always a new value, so the escrow is always written
      conflict == \/ c.dirtyE
                  \/ wroteB /\ c.dirtyB
                  \/ c.txSeen = "none" /\ TxStatus(ledger, c.ref) # "none"
  IN
  /\ c.pc = "commit" /\ c.op = "release"
  /\ UNCHANGED <<disputes, report>>
  /\ clock' = clock + 1
  /\ UNCHANGED gateway
  /\ IF conflict
     THEN /\ UNCHANGED db
          /\ calls' = Finish(calls, p)
          /\ last' = Result("release", b, TRUE, FALSE, "write conflict", NoRef)
     ELSE /\ ledger' = recordTransaction(ledger, c.txSeen,
                            Tx(b, c.amount, "release", resultStatus(c.ok), c.ref))
          /\ escrows' = [escrows EXCEPT ![b] = SaveDoc(@, c.loadedE, newE)]
          /\ bookings' = [bookings EXCEPT ![b] = SaveDoc(@, c.loadedB, newB)]
          /\ calls' = Finish(MarkDirty(calls, p, b, TRUE, wroteB), p)
          /\ last' = Result("release", b, FALSE, c.ok, "", c.ref)

\* session start, Booking.findById, Escrow.findOne, the guard, adapter.refund
refundFunds(p) ==
  /\ calls[p].pc = "idle"
  /\ UNCHANGED <<disputes, report>>
  /\ clock < MaxClock
  /\ \E b \in BookingIds :
       IF b = 0 THEN Throw(p, "refund", b, "Booking not found")
       ELSE IF ~HasEscrow(b) THEN Throw(p, "refund", b, "Escrow record not found")
       ELSE IF escrows[b].state \notin Releasable
            THEN Throw(p, "refund", b, "Escrow not in refundable state")
       ELSE \E outcome \in AdapterOutcomes :
            /\ gateway' = [gateway EXCEPT ![b].refund = @ + 1,
                            ![b].refunded = @ + (IF outcome = "success" THEN 1 ELSE 0)]
            /\ UNCHANGED db
            /\ IF outcome = "throws"
               THEN /\ last' = Result("refund", b, TRUE, FALSE, "refund failed", NoRef)
                    /\ calls' = Finish(calls, p)
                    /\ clock' = clock + 1
               ELSE /\ calls' = [calls EXCEPT ![p] =
                          [pc |-> "commit", op |-> "refund", b |-> b,
                           ref |-> [k |-> "REF", n |-> clock],
                           ok |-> (outcome = "success"),
                           amount |-> Or(escrows[b].amount,
                                         Or(bookings[b].escrowAmount, bookings[b].totalAmount)),
                           txSeen |-> TxStatus(ledger, [k |-> "REF", n |-> clock]),
                           loadedE |-> escrows[b], loadedB |-> bookings[b],
                           dirtyE |-> FALSE, dirtyB |-> FALSE, eff |-> TRUE, sig |-> TRUE,
                           ev |-> "none"]]
                    /\ last' = NoResult
                    /\ UNCHANGED clock

\* recordTransaction, escrow.save, booking.save, commitTransaction
refundCommit(p) ==
  LET c == calls[p]
      b == c.b
      newE == [c.loadedE EXCEPT !.state = refundState(c.ok)]
      newB == IF c.ok
              THEN [c.loadedB EXCEPT !.paymentStatus = "refunded", !.status = "cancelled"]
              ELSE c.loadedB
      wroteB == newB # c.loadedB
      conflict == \/ c.dirtyE
                  \/ wroteB /\ c.dirtyB
                  \/ c.txSeen = "none" /\ TxStatus(ledger, c.ref) # "none"
  IN
  /\ c.pc = "commit" /\ c.op = "refund"
  /\ UNCHANGED <<disputes, report>>
  /\ clock' = clock + 1
  /\ UNCHANGED gateway
  /\ IF conflict
     THEN /\ UNCHANGED db
          /\ calls' = Finish(calls, p)
          /\ last' = Result("refund", b, TRUE, FALSE, "write conflict", NoRef)
     ELSE /\ ledger' = recordTransaction(ledger, c.txSeen,
                            Tx(b, c.amount, "refund", resultStatus(c.ok), c.ref))
          /\ escrows' = [escrows EXCEPT ![b] = SaveDoc(@, c.loadedE, newE)]
          /\ bookings' = [bookings EXCEPT ![b] = SaveDoc(@, c.loadedB, newB)]
          /\ calls' = Finish(MarkDirty(calls, p, b, TRUE, wroteB), p)
          /\ last' = Result("refund", b, FALSE, c.ok, "", c.ref)

\* ------------------------------------------------------------ initializeEscrow
\* references the gateway has already handed out or that the store already knows
UsedRefs ==
  {t.reference : t \in ledger}
    \cup {escrows[b].gatewayReference : b \in Bookings}
    \cup {bookings[b].paymentReference : b \in Bookings}
    \cup {calls[q].ref : q \in Procs}

\* an early return for released escrows only
InitRejected_releasedOnly == {"released"}

\* an escrow in one of these states is not initialized again
InitRejected == {"held", "released"}

\* session start, Booking.findById, Escrow.findOne, the early return, the escrow
\* written in the session, adapter.initialize
initializeEscrow(p) ==
  /\ calls[p].pc = "idle"
  /\ UNCHANGED <<disputes, report>>
  /\ clock < MaxClock
  /\ \E b \in BookingIds, amount \in Amounts :
       IF b = 0 THEN Throw(p, "init", b, "Booking not found")
       ELSE IF escrows[b].state \in InitRejected
       THEN \* commitTransaction of an empty session, { success: false, ... }
            /\ last' = Result("init", b, FALSE, FALSE,
                              "Escrow already initialized or completed", NoRef)
            /\ calls' = Finish(calls, p)
            /\ UNCHANGED <<db, gateway, clock>>
       ELSE \/ \* gateway not one of GATEWAYS
               Throw(p, "init", b, "Unsupported payment gateway")
            \/ \* adapter.initialize rejects
               /\ gateway' = [gateway EXCEPT ![b].initialize = @ + 1]
               /\ last' = Result("init", b, TRUE, FALSE, "initialize failed", NoRef)
               /\ calls' = Finish(calls, p)
               /\ clock' = clock + 1
               /\ UNCHANGED db
            \/ \* adapter.initialize returns a new reference
               \E r \in PayRefs \ UsedRefs :
                 /\ gateway' = [gateway EXCEPT ![b].initialize = @ + 1]
                 /\ calls' = [calls EXCEPT ![p] =
                       [pc |-> "commit", op |-> "init", b |-> b, ref |-> r, ok |-> TRUE,
                        amount |-> amount, txSeen |-> TxStatus(ledger, r),
                        loadedE |-> escrows[b], loadedB |-> bookings[b],
                        dirtyE |-> FALSE, dirtyB |-> FALSE, eff |-> TRUE, sig |-> TRUE,
                           ev |-> "none"]]
                 /\ last' = NoResult
                 /\ UNCHANGED <<db, clock>>

\* recordTransaction, booking.save, commitTransaction
initializeCommit(p) ==
  LET c == calls[p]
      b == c.b
      \* if (!escrow) new Escrow(...).save({ session }), else escrow.save({ session })
      inserted == c.loadedE.docs = 0
      newE == [c.loadedE EXCEPT !.amount = c.amount, !.state = "pending",
                                !.docs = IF inserted THEN 1 ELSE @]
      newB == [c.loadedB EXCEPT !.paymentStatus = "pending"]
      wroteE == newE # c.loadedE
      wroteB == newB # c.loadedB
      conflict == \/ IF inserted THEN duplicateKey(escrows[b].docs) ELSE wroteE /\ c.dirtyE
                  \/ wroteB /\ c.dirtyB
                  \/ c.txSeen = "none" /\ TxStatus(ledger, c.ref) # "none"
  IN
  /\ c.pc = "commit" /\ c.op = "init"
  /\ UNCHANGED <<disputes, report>>
  /\ clock' = clock + 1
  /\ UNCHANGED gateway
  /\ IF conflict
     THEN /\ UNCHANGED db
          /\ calls' = Finish(calls, p)
          /\ last' = Result("init", b, TRUE, FALSE, "write conflict", NoRef)
     ELSE /\ ledger' = recordTransaction(ledger, c.txSeen,
                            Tx(b, c.amount, "escrow", "pending", c.ref))
          /\ escrows' = [escrows EXCEPT ![b] =
                           IF inserted THEN [newE EXCEPT !.docs = escrows[b].docs + 1]
                           ELSE SaveDoc(@, c.loadedE, newE)]
          /\ bookings' = [bookings EXCEPT ![b] = SaveDoc(@, c.loadedB, newB)]
          /\ calls' = Finish(MarkDirty(calls, p, b, wroteE, wroteB), p)
          /\ last' = Result("init", b, FALSE, TRUE, "", c.ref)

\* ------------------------------------------------------------ handleWebhook
\* metadata.bookingId of the body: -1 when the body carries none, 0 an id of no booking
MetaIds == -1..NumBookings

EventTypes == {"charge.success", "charge.failed", "refund.processed"}
DataStatuses == {"success", "failed", "none"}
successEvents == {"charge.success", "transfer.success", "successful", "charge.completed"}
failureEvents == {"failed", "charge.failed", "payment.failed", "cancelled"}

isSuccess(ev, ds) == ev \in successEvents \/ ds = "success"
isFailure(ev, ds) == ev \in failureEvents \/ ds = "failed"

\* the branch handleWebhook takes for an event type and a data.status
Classify(ev, ds) ==
  IF isSuccess(ev, ds) THEN "success"
  ELSE IF isFailure(ev, ds) THEN "failure"
  ELSE "unhandled"

\* adapter.verify(reference): its status, or a rejected promise
VerifyOutcomes == {"success", "failed", "throws"}

\* verifyResult?.amount || (data?.amount ? data.amount / 100 : null)
verifiedAmount(vr, va, ba) == Or(IF vr = "throws" THEN 0 ELSE va, ba)

\* the booking the webhook resolves to (0: none), by metadata.bookingId or else by
\* the escrow whose gatewayReference is the reference
Resolves(meta, ref, b) ==
  IF meta >= 0 THEN b = meta
  ELSE IF \E e \in Bookings : escrows[e].gatewayReference = ref
       THEN b \in Bookings /\ escrows[b].gatewayReference = ref
       ELSE b = 0

\* a signature check that turns nothing down
signatureRejected_never(verified) == FALSE

\* if (!verified) return { success: false, reason: "signature_verification_failed" }
signatureRejected(verified) == ~verified

\* a Transaction schema that accepts a document without bookingId
bookingIdMissing_accepted(b) == FALSE

\* bookingId: { required: true }: new Transaction({ bookingId: null, ... }).save()
\* fails validation.  b = 0: the webhook resolved to no booking and no escrow
bookingIdMissing(b) == b = 0

\* existingTx && existingTx.status === "success"
alreadyProcessed(status) == status = "success"

\* the webhook returns a result without touching the store
Answer(p, b, success, reason) ==
  /\ last' = Result("webhook", b, FALSE, success, reason, calls[p].ref)
  /\ calls' = Finish(calls, p)
  /\ clock' = Tick(calls[p].eff)
  /\ UNCHANGED <<db, gateway>>

\* signature check, reference and bookingId, Booking/Escrow lookup, and the
\* findOneAndUpdate upsert that creates a missing escrow as pending
handleWebhook(p) ==
  /\ calls[p].pc = "idle"
  /\ UNCHANGED <<disputes, report>>
  /\ clock < MaxClock
  /\ \E verified \in BOOLEAN, ref \in PayRefs \cup {NoRef}, meta \in MetaIds, b \in BookingIds,
        ev \in EventTypes :
       IF signatureRejected(verified)
       THEN /\ b = 0
            /\ last' = [Result("webhook", 0, FALSE, FALSE, "signature_verification_failed",
                                NoRef) EXCEPT !.arg.sig = verified]
            /\ calls' = Finish(calls, p)
            /\ UNCHANGED <<db, gateway, clock>>
       ELSE IF ref = NoRef THEN b = 0 /\ Answer(p, 0, FALSE, "no_reference")
       ELSE /\ Resolves(meta, ref, b)
            /\ LET created == b # 0 /\ ~HasEscrow(b)
                   e == IF b = 0 THEN NoEscrow
                        ELSE IF created
                        THEN [state |-> "pending",
                              amount |-> Or(bookings[b].escrowAmount, bookings[b].totalAmount),
                              gatewayReference |-> ref, reconciled |-> FALSE, docs |-> 1]
                        ELSE escrows[b]
               IN /\ escrows' = IF created THEN [escrows EXCEPT ![b] = e] ELSE escrows
                  /\ calls' = [MarkDirty(calls, p, b, created, FALSE) EXCEPT ![p] =
                        [pc |-> "verify", op |-> "webhook", b |-> b, ref |-> ref,
                         ok |-> FALSE, amount |-> 0, txSeen |-> "none", loadedE |-> e,
                         loadedB |-> IF b = 0 THEN NoBooking ELSE bookings[b],
                         dirtyE |-> FALSE, dirtyB |-> FALSE, eff |-> created,
                         sig |-> verified, ev |-> ev]]
            /\ last' = NoResult
            /\ UNCHANGED <<bookings, ledger, gateway, clock>>

\* the failure branch: recordTransaction, booking.save, escrow.save, no session
webhookFailure(p, ba) ==
  LET c == calls[p]
      b == c.b
      existing == TxStatus(ledger, c.ref)
      newE == [c.loadedE EXCEPT !.state = "cancelled"]
      newB == [c.loadedB EXCEPT !.paymentStatus = "failed"]
  IN
  /\ clock' = Tick(c.eff \/ b # 0)
  /\ UNCHANGED gateway
  /\ IF b = 0
     THEN \* no booking and no escrow: only recordTransaction runs, and a new
          \* Transaction without bookingId fails validation
          LET done == existing # "none" \/ ~bookingIdMissing(b) IN
          /\ ledger' = IF bookingIdMissing(b) THEN ledger
                        ELSE recordTransaction(ledger, existing,
                                               Tx(b, ba, "escrow", "failed", c.ref))
          /\ UNCHANGED <<bookings, escrows>>
          /\ calls' = Finish(calls, p)
          /\ last' = Result("webhook", b, FALSE, done,
                            IF done THEN "failure" ELSE "error", c.ref)
     ELSE /\ ledger' = recordTransaction(ledger, existing,
                            Tx(b, ba, "escrow", "failed", c.ref))
          /\ bookings' = [bookings EXCEPT ![b] = SaveDoc(@, c.loadedB, newB)]
          /\ escrows' = [escrows EXCEPT ![b] = SaveDoc(@, c.loadedE, newE)]
          /\ calls' = Finish(MarkDirty(calls, p, b, newE # c.loadedE, newB # c.loadedB), p)
          /\ last' = Result("webhook", b, FALSE, TRUE, "failure", c.ref)

\* event classification; for a success event adapter.verify, the session start
\* and the idempotency check on the reference
webhookProcess(p) ==
  LET c == calls[p] IN
  /\ c.pc = "verify" /\ c.op = "webhook"
  /\ UNCHANGED <<disputes, report>>
  /\ \E ds \in DataStatuses, ba \in AmountsOrNone :
       LET cls == Classify(c.ev, ds) IN
       IF cls = "success"
       THEN \E vr \in VerifyOutcomes, va \in AmountsOrNone :
              IF alreadyProcessed(TxStatus(ledger, c.ref))
              THEN Answer(p, c.b, TRUE, "already_processed")
              ELSE /\ calls' = [calls EXCEPT ![p] =
                         [c EXCEPT !.pc = "commit", !.ok = (vr = "success"),
                                   !.amount = verifiedAmount(vr, va, ba),
                                   !.txSeen = TxStatus(ledger, c.ref),
                                   !.dirtyE = FALSE, !.dirtyB = FALSE, !.ev = "none"]]
                   /\ UNCHANGED <<db, gateway, clock, last>>
       ELSE IF cls = "failure" THEN webhookFailure(p, ba)
       ELSE Answer(p, c.b, TRUE, "noop")

\* recordTransaction, escrow.save, booking.save, commitTransaction
webhookCommit(p) ==
  LET c == calls[p]
      b == c.b
      newE == [c.loadedE EXCEPT !.state = "held", !.gatewayReference = c.ref,
                                !.amount = Or(c.amount, c.loadedE.amount)]
      newB == [c.loadedB EXCEPT
                 !.paymentStatus = "escrowed",
                 !.escrowAmount = Or(newE.amount, Or(c.loadedB.escrowAmount,
                                                     c.loadedB.totalAmount)),
                 !.status = IF @ = "pending" THEN "confirmed" ELSE @]
      wroteE == newE # c.loadedE
      wroteB == newB # c.loadedB
      conflict == \/ wroteE /\ c.dirtyE
                  \/ wroteB /\ c.dirtyB
                  \/ c.txSeen = "none" /\ TxStatus(ledger, c.ref) # "none"
  IN
  /\ c.pc = "commit" /\ c.op = "webhook"
  /\ UNCHANGED <<disputes, report>>
  /\ clock' = Tick(c.eff \/ (b # 0 /\ ~conflict))
  /\ UNCHANGED gateway
  /\ calls' = Finish(IF b = 0 \/ conflict THEN calls
                     ELSE MarkDirty(calls, p, b, wroteE, wroteB), p)
  /\ IF b = 0
     THEN \* no booking and no escrow: only recordTransaction runs, and a new
          \* Transaction without bookingId fails validation
          LET done == c.txSeen # "none" \/ ~bookingIdMissing(b) IN
          /\ ledger' = IF bookingIdMissing(b) THEN ledger
                        ELSE recordTransaction(ledger, c.txSeen,
                                               Tx(b, c.amount, "escrow", "success", c.ref))
          /\ UNCHANGED <<bookings, escrows>>
          /\ last' = Result("webhook", b, FALSE, done,
                            IF done THEN "" ELSE "error", c.ref)
     ELSE IF conflict
     THEN /\ UNCHANGED db
          /\ last' = Result("webhook", b, FALSE, FALSE, "error", c.ref)
     ELSE /\ ledger' = recordTransaction(ledger, c.txSeen,
                            Tx(b, c.amount, "escrow", "success", c.ref))
          /\ escrows' = [escrows EXCEPT ![b] = SaveDoc(@, c.loadedE, newE)]
          /\ bookings' = [bookings EXCEPT ![b] = SaveDoc(@, c.loadedB, newB)]
          /\ last' = Result("webhook", b, FALSE, TRUE, "", c.ref)

\* ------------------------------------------------------------ /api/webhooks
\* events the route distinguishes, and one it does not
RouteEvents == {"charge.success", "refund.processed", "charge.failed"}

\* the route answers without a write
RouteAnswer(p, reason) ==
  /\ last' = Result("route", 0, FALSE, FALSE, reason, NoRef)
  /\ UNCHANGED <<db, calls, clock>>

\* router.post("/paystack"): signature, Booking.findOne({ paymentReference }),
\* find or create the Transaction, then the event branch; every write is its own
\* store operation (no session).  router.post("/flutterwave") has the same steps
\* over Booking.txRef.
paystackWebhook(p) ==
  /\ calls[p].pc = "idle"
  /\ UNCHANGED <<disputes, report>>
  /\ clock < MaxClock
  /\ UNCHANGED gateway
  /\ \E valid \in BOOLEAN, ref \in PayRefs, event \in RouteEvents :
       IF ~valid
       THEN /\ last' = [Result("route", 0, FALSE, FALSE, "403", NoRef) EXCEPT !.arg.sig = FALSE]
            /\ UNCHANGED <<db, calls, clock>>
       ELSE IF ~\E b \in Bookings : bookings[b].paymentReference = ref
       THEN \* Booking.create of the dummy booking throws (no proId; require in an ES module)
            RouteAnswer(p, "500")
       ELSE \E b \in Bookings, e \in BookingIds :
            LET found == TxStatus(ledger, ref) # "none"
                tx == IF found THEN CHOOSE t \in ledger : t.reference = ref
                      ELSE Tx(b, bookings[b].totalAmount, "escrow", "pending", ref)
                byRef == {x \in Bookings : escrows[x].gatewayReference = ref}
                \* Escrow.create for a booking that has an escrow: duplicate key
                dup == event = "charge.success" /\ e = 0 /\ duplicateKey(escrows[b].docs)
                newLedger ==
                  IF event = "charge.success"
                  THEN (ledger \ {tx}) \cup {[tx EXCEPT !.status = "success"]}
                  ELSE IF event = "refund.processed"
                  THEN (ledger \ {tx}) \cup {[tx EXCEPT !.status = "success", !.type = "refund"]}
                  ELSE ledger \cup {tx}
                newEscrows ==
                  IF event = "charge.success"
                  THEN IF e # 0 THEN [escrows EXCEPT ![e].state = "held"]
                       ELSE IF dup THEN escrows
                       ELSE IF HasEscrow(b) THEN [escrows EXCEPT ![b].docs = @ + 1]
                       ELSE [escrows EXCEPT ![b] =
                               [state |-> "held", amount |-> bookings[b].totalAmount,
                                gatewayReference |-> ref, reconciled |-> FALSE, docs |-> 1]]
                  ELSE IF event = "refund.processed" /\ e # 0
                  THEN [escrows EXCEPT ![e].state = "refunded"]
                  ELSE escrows
                target == IF e # 0 THEN e ELSE b
            IN
            /\ bookings[b].paymentReference = ref
            /\ IF byRef = {} THEN e = 0 ELSE e \in byRef
            /\ ledger' = newLedger
            /\ escrows' = newEscrows
            /\ UNCHANGED bookings
            /\ calls' = MarkDirty(calls, p, target, newEscrows # escrows, FALSE)
            /\ clock' = Tick(newLedger # ledger \/ newEscrows # escrows)
            /\ last' = Result("route", b, FALSE, ~dup, IF dup THEN "500" ELSE "200", NoRef)

\* ------------------------------------------------------------ reconcileEscrows
\* states reconcileEscrows leaves alone when the gateway reports success
ReconcileKeeps == {"held", "released"}

\* one escrow of the scan: flagged without gatewayReference, an error when
\* adapter.verify rejects, else Escrow.findByIdAndUpdate
reconcileOne(e, vr) ==
  IF e.state = "none" \/ e.reconciled \/ e.gatewayReference = NoRef \/ vr = "throws"
  THEN e
  ELSE IF vr = "success" /\ e.state \notin ReconcileKeeps
  THEN [e EXCEPT !.state = "held", !.reconciled = TRUE]
  ELSE [e EXCEPT !.reconciled = TRUE]

\* Escrow.find({ reconciled: false }) and the loop over the result
reconcileEscrows(p) ==
  /\ calls[p].pc = "idle"
  /\ UNCHANGED <<disputes, report>>
  /\ clock < MaxClock
  /\ \E vr \in [Bookings -> VerifyOutcomes] :
       LET newEscrows == [b \in Bookings |-> reconcileOne(escrows[b], vr[b])] IN
       /\ escrows' = newEscrows
       /\ calls' = [q \in Procs |->
             IF q # p /\ calls[q].pc # "idle" /\ calls[q].b \in Bookings
             THEN [calls[q] EXCEPT !.dirtyE = @ \/ newEscrows[calls[q].b] # escrows[calls[q].b]]
             ELSE calls[q]]
       /\ clock' = Tick(newEscrows # escrows)
  /\ last' = Result("reconcile", 0, FALSE, TRUE, "", NoRef)
  /\ UNCHANGED <<bookings, ledger, gateway>>

\* ------------------------------------------------------------ settleEscrow
\* escrow.status: the Escrow schema has no path status (the state is in state), so
\* the document read from the store has none
escrowStatus(e) == "undefined"

\* escrow.amountHeld read as the amount of the escrow
escrowAmountHeld_amount(e) == e.amount

\* escrow.amountHeld: no path of the Escrow schema either; 0 stands for undefined
escrowAmountHeld(e) == 0

\* what settleEscrow reads from the booking and the clock: reviews, how many of
\* customerReviewed and proReviewed are set; completedLongAgo, the booking was
\* completed at least the grace period ago; updatedLongAgo, booking.updatedAt is
\* more than the grace period ago.  updatedAt is never earlier than the completion.
SettleArgs ==
  {a \in [sig : {TRUE}, reviews : 0..2, completedLongAgo : BOOLEAN,
          updatedLongAgo : BOOLEAN, resolution : {"none"}, limit : {0},
          visited : {{}}] :
     a.updatedLongAgo => a.completedLongAgo}

\* graceExpired: booking.completedAt is no path of the Booking schema, so
\* completedAt is booking.updatedAt, which timestamps: true always sets
graceExpired(a) == a.updatedLongAgo

\* customerReviewed && proReviewed
bothReviewed(a) == a.reviews = 2

\* reference: `PAYOUT-${booking._id}`
PayoutRef(b) == [k |-> "PAYOUT", n |-> b]

SettleResult(threw, success, reason, read, tx, released) ==
  [threw |-> threw, success |-> success, reason |-> reason, read |-> read,
   tx |-> tx, released |-> released]

\* the body of settleEscrow(bookingId) on the stored documents: what it returns
\* or throws, the Transactions it creates and whether it saves
\* booking.paymentReleased.  pro: User.findById(booking.proId) finds the user.
\* Assigning escrow.status and escrow.releasedAt sets no schema path, so
\* escrow.save() writes nothing; Transaction.create validates amount (required)
\* and the unique index on reference before booking.paymentReleased is set.
settleOne(b, a, pro) ==
  IF b = 0 THEN SettleResult(TRUE, FALSE, "Booking not found", FALSE, {}, FALSE)
  ELSE IF ~HasEscrow(b)
  THEN SettleResult(TRUE, FALSE, "Escrow record not found", FALSE, {}, FALSE)
  ELSE IF escrowStatus(escrows[b]) = "released"
  THEN SettleResult(FALSE, TRUE, "already released", FALSE, {}, FALSE)
  ELSE IF ~graceExpired(a) /\ ~bothReviewed(a)
  THEN SettleResult(FALSE, FALSE, "waiting", TRUE, {}, FALSE)
  ELSE IF ~pro
  THEN SettleResult(TRUE, FALSE, "Pro user not found", TRUE, {}, FALSE)
  ELSE IF escrowAmountHeld(escrows[b]) = 0
  THEN SettleResult(TRUE, FALSE, "Transaction validation failed", TRUE, {}, FALSE)
  ELSE IF TxStatus(ledger, PayoutRef(b)) # "none"
  THEN SettleResult(TRUE, FALSE, "duplicate key", TRUE, {}, FALSE)
  ELSE SettleResult(FALSE, TRUE, "released", TRUE,
                    {Tx(b, escrowAmountHeld(escrows[b]), "payout", "success",
                        PayoutRef(b))}, TRUE)

\* settleEscrow(bookingId), called by the review service after a review and by
\* autoSettlePendingEscrows
settleEscrow(p) ==
  /\ calls[p].pc = "idle"
  /\ \E b \in BookingIds, a \in SettleArgs, pro \in BOOLEAN :
       LET r == settleOne(b, a, pro) IN
       \* what the call does not read is taken at its default
       /\ r.read \/ (a = NoArg /\ pro)
       /\ ledger' = ledger \cup r.tx
       /\ bookings' = IF r.released
                      THEN [bookings EXCEPT ![b].paymentReleased = TRUE]
                      ELSE bookings
       /\ calls' = MarkDirty(calls, p, b, FALSE, r.released)
       /\ last' = [Result("settle", b, r.threw, r.success, r.reason, NoRef)
                     EXCEPT !.arg = a]
  /\ UNCHANGED <<escrows, gateway, clock, disputes, report>>

\* Escrow.find({ status: "held" }): status is no path of the Escrow schema.
\* With strictQuery on the condition is dropped and every escrow is found; with
\* it off the condition reaches the store and no document matches.
pendingEscrows(strictQuery) ==
  IF strictQuery THEN {b \in Bookings : HasEscrow(b)} ELSE {}

\* autoSettlePendingEscrows(): settleEscrow for every escrow found, each in its
\* own try/catch
autoSettlePendingEscrows(p) ==
  /\ calls[p].pc = "idle"
  /\ \E strictQuery \in BOOLEAN :
       LET pending == pendingEscrows(strictQuery) IN
       \E r \in [pending -> {settleOne(b, a, pro) :
                               b \in pending, a \in SettleArgs, pro \in BOOLEAN}] :
       /\ \A b \in pending :
            \E a \in SettleArgs, pro \in BOOLEAN : r[b] = settleOne(b, a, pro)
       /\ ledger' = ledger \cup UNION {r[b].tx : b \in pending}
       /\ bookings' = [b \in Bookings |->
                         IF b \in pending /\ r[b].released
                         THEN [bookings[b] EXCEPT !.paymentReleased = TRUE]
                         ELSE bookings[b]]
       /\ calls' = [q \in Procs |->
             IF q # p /\ calls[q].pc # "idle" /\ calls[q].b \in pending
             THEN [calls[q] EXCEPT !.dirtyB = @ \/ r[calls[q].b].released]
             ELSE calls[q]]
       /\ last' = [Result("autosettle", 0, FALSE, TRUE, "", NoRef)
                     EXCEPT !.arg.visited = pending]
  /\ UNCHANGED <<escrows, gateway, clock, disputes, report>>

\* ------------------------------------------------------------ disputeService
\* DisputeSchema.resolution: enum
Resolutions == {"refund_customer", "release_pro", "split", "no_action", "other"}

\* the resolution a caller can pass: one of the enum, a string outside it, or
\* none
ResolutionInputs == Resolutions \cup {"bogus", "none"}

\* an open Dispute that passes DisputeSchema
OpenDispute == [status |-> "open", resolution |-> "none"]

\* Dispute.create({ bookingId, raisedBy, reason, description, status }):
\* DisputeSchema requires initiatorId and respondentId, which the call does not
\* give (raisedBy is no path of the schema), so validation always fails
disputeCreateValid == FALSE

\* createDispute({ bookingId, raisedBy, reason, description })
createDispute(p) ==
  /\ calls[p].pc = "idle"
  /\ \E b \in BookingIds :
       IF b = 0
       THEN /\ last' = Result("dispute", b, TRUE, FALSE, "Booking not found", NoRef)
            /\ UNCHANGED disputes
       ELSE IF ~disputeCreateValid
       THEN /\ last' = Result("dispute", b, TRUE, FALSE, "Dispute validation failed", NoRef)
            /\ UNCHANGED disputes
       ELSE /\ disputes' = [disputes EXCEPT ![b] = OpenDispute]
            /\ last' = Result("dispute", b, FALSE, TRUE, "", NoRef)
  /\ UNCHANGED <<db, gateway, calls, clock, report>>

\* dispute.save(): the enum validator of resolution runs on a value that is set
resolutionValid(resolution) == resolution \in Resolutions \cup {"none"}

\* booking.status = "dispute_resolved"; booking.save(): the value is not in the
\* enum of Booking.status
bookingStatusValid(status) ==
  status \in {"pending", "confirmed", "in_progress", "completed", "cancelled"}

\* resolveDispute({ disputeId, resolvedBy, resolution, winnerId }); d is the
\* booking whose dispute disputeId names, 0 for an id of no dispute.  The function
\* has no call into the escrow service and creates no Transaction.
resolveDispute(p) ==
  /\ calls[p].pc = "idle"
  /\ clock < MaxClock
  /\ \E d \in BookingIds, resolution \in ResolutionInputs :
       LET found == d # 0 /\ disputes[d].status # "none"
           saved == [status |-> "resolved", resolution |-> resolution]
           answer(threw, reason) ==
             [Result("resolve", d, threw, ~threw, reason, NoRef)
                EXCEPT !.arg.resolution = resolution]
       IN
       IF ~found
       THEN /\ last' = answer(TRUE, "Dispute not found")
            /\ UNCHANGED <<disputes, bookings, clock>>
       ELSE IF ~resolutionValid(resolution)
       THEN /\ last' = answer(TRUE, "Dispute validation failed")
            /\ UNCHANGED <<disputes, bookings, clock>>
       ELSE /\ disputes' = [disputes EXCEPT ![d] = saved]
            /\ clock' = Tick(saved # disputes[d])
            /\ IF bookingStatusValid("dispute_resolved")
               THEN /\ bookings' = [bookings EXCEPT ![d].status = "dispute_resolved"]
                    /\ last' = answer(FALSE, "")
               ELSE /\ last' = answer(TRUE, "Booking validation failed")
                    /\ UNCHANGED bookings
  /\ UNCHANGED <<escrows, ledger, gateway, calls, report>>

\* ------------------------------------------------------------ reconciliationService
\* the limit a run is given: one document per collection, or the default 5000
Limits == {1, 5000}

\* the orders in which a cursor without a sort can deliver the documents of S
Orders(S) ==
  {o \in [1..Cardinality(S) -> S] :
     \A i, j \in 1..Cardinality(S) : i # j => o[i] # o[j]}

\* an entry of issues: its type and related.transactionId, related.bookingId.
\* A Transaction is named by its reference.
Issue(type, ref, b) == [type |-> type, ref |-> ref, b |-> b]

\* what the first loop pushes for one Transaction; the lookups are taken to
\* succeed (a rejected lookup would push a reconcile_error instead)
txIssues(tx) ==
  IF tx.bookingId = 0
  THEN <<Issue("txn_without_booking", tx.reference, 0)>>
  ELSE IF tx.bookingId \notin Bookings
  THEN <<Issue("txn_booking_missing", tx.reference, tx.bookingId)>>
  ELSE IF tx.type = "payment" /\ tx.status = "success"
  THEN IF ~HasEscrow(tx.bookingId)
       THEN <<Issue("txn_missing_escrow", tx.reference, tx.bookingId)>>
       ELSE (IF escrowAmountHeld(escrows[tx.bookingId]) # tx.amount
             THEN <<Issue("amount_mismatch", tx.reference, tx.bookingId)>>
             ELSE <<>>)
            \o
            (IF /\ escrowStatus(escrows[tx.bookingId]) = "released"
                /\ ~bookings[tx.bookingId].paymentReleased
             THEN <<Issue("escrow_released_booking_not_updated", tx.reference,
                          tx.bookingId)>>
             ELSE <<>>)
  ELSE <<>>

\* what the second loop pushes for the Escrow of booking b
escrowIssues(b) ==
  IF b \notin Bookings
  THEN <<Issue("escrow_without_booking", NoRef, b)>>
  ELSE IF ~\E t \in ledger :
             t.bookingId = b /\ t.type = "payment" /\ t.status = "success"
  THEN <<Issue("escrow_without_txn", NoRef, b)>>
  ELSE <<>>

\* for await (const tx of txCursor): the issues and txChecked after the loop
RECURSIVE scanTransactions(_, _, _, _)
scanTransactions(txs, limit, issues, txChecked) ==
  IF txs = <<>> \/ txChecked >= limit \/ Len(issues) >= MAX_ISSUES
  THEN [issues |-> issues, checked |-> txChecked]
  ELSE scanTransactions(Tail(txs), limit, issues \o txIssues(Head(txs)),
                        txChecked + 1)

\* for await (const esc of escCursor): the issues and escrowsChecked after it
RECURSIVE scanEscrows(_, _, _, _)
scanEscrows(escs, limit, issues, escrowsChecked) ==
  IF escs = <<>> \/ escrowsChecked >= limit \/ Len(issues) >= MAX_ISSUES
  THEN [issues |-> issues, checked |-> escrowsChecked]
  ELSE scanEscrows(Tail(escs), limit, issues \o escrowIssues(Head(escs)),
                   escrowsChecked + 1)

\* issues.slice(0, MAX_ISSUES)
slice(issues) ==
  SubSeq(issues, 1, IF Len(issues) < MAX_ISSUES THEN Len(issues) ELSE MAX_ISSUES)

\* reconcileTransactions({ limit, runBy }).  runByValid: runBy casts to an
\* ObjectId (null or a user id); the default "system" does not, and
\* ReconciliationReport.create rejects.
reconcileTransactions(p) ==
  /\ calls[p].pc = "idle"
  /\ clock < MaxClock
  /\ \E limit \in Limits, runByValid \in BOOLEAN, txs \in Orders(ledger),
        escs \in Orders({b \in Bookings : HasEscrow(b)}) :
       LET t == scanTransactions(txs, limit, <<>>, 0)
           e == scanEscrows(escs, limit, t.issues, 0)
           doc == [stored |-> TRUE, txChecked |-> t.checked,
                   escrowsChecked |-> e.checked, totalIssues |-> Len(e.issues),
                   issues |-> slice(e.issues)]
       IN
       IF runByValid
       THEN /\ report' = doc
            /\ clock' = Tick(TRUE)
            /\ last' = [Result("reconcileTransactions", 0, FALSE, TRUE, "", NoRef)
                          EXCEPT !.arg.limit = limit]
       ELSE /\ last' = [Result("reconcileTransactions", 0, TRUE, FALSE,
                               "Cast to ObjectId failed", NoRef)
                          EXCEPT !.arg.limit = limit]
            /\ UNCHANGED <<report, clock>>
  /\ UNCHANGED <<db, gateway, calls, disputes>>

\* the calls of the escrow service and of the webhook routes
Step(p) ==
  \/ initializeEscrow(p)
  \/ handleWebhook(p)
  \/ webhookProcess(p)
  \/ webhookCommit(p)
  \/ initializeCommit(p)
  \/ releaseFunds(p)
  \/ releaseCommit(p)
  \/ refundFunds(p)
  \/ refundCommit(p)
  \/ paystackWebhook(p)
  \/ reconcileEscrows(p)

Next == \E p \in {1} : Step(p)
Spec == Init /\ [][Next]_vars

ConcNext == \E p \in Procs : Step(p)
ConcSpec == Init /\ [][ConcNext]_vars

\* the escrow service together with the settlement policy (review service and
\* nightly job), calls running one after the other
SettleNext ==
  \E p \in {1} : Step(p) \/ settleEscrow(p) \/ autoSettlePendingEscrows(p)
SettleSpec == Init /\ [][SettleNext]_vars

\* the store when the dispute service is called: createDispute cannot store a
\* Dispute, so the disputes resolveDispute finds were stored by other means; each
\* booking has none or an open one
DisputeInit ==
  /\ bookings = [b \in Bookings |->
        [paymentStatus |-> "unpaid", status |-> "pending", paymentReleased |-> FALSE,
         escrowAmount |-> 0, totalAmount |-> TotalAmount,
         paymentReference |-> IF b = 1 THEN PayRef(1) ELSE NoRef]]
  /\ escrows = [b \in Bookings |-> NoEscrow]
  /\ ledger = {}
  /\ gateway = [b \in Bookings |->
        [initialize |-> 0, payout |-> 0, paid |-> 0, refund |-> 0, refunded |-> 0]]
  /\ calls = [p \in Procs |-> Idle]
  /\ clock = 0
  /\ last = NoResult
  /\ disputes \in [Bookings -> {NoDispute, OpenDispute}]
  /\ report = NoReport

\* the store after booking 1 has been paid and released: handleWebhook processed
\* the success event of the payment (verified amount RequestedAmount) and held the
\* escrow, and releaseFunds paid out and committed released.  EarlierRelease is
\* the reference of that release.
EarlierRelease == [k |-> "REL", n |-> -1]
ReleasedInit ==
  /\ bookings = [b \in Bookings |->
        IF b = 1
        THEN [paymentStatus |-> "released", status |-> "completed",
              paymentReleased |-> FALSE, escrowAmount |-> RequestedAmount,
              totalAmount |-> TotalAmount, paymentReference |-> PayRef(1)]
        ELSE [paymentStatus |-> "unpaid", status |-> "pending",
              paymentReleased |-> FALSE, escrowAmount |-> 0,
              totalAmount |-> TotalAmount, paymentReference |-> NoRef]]
  /\ escrows = [b \in Bookings |->
        IF b = 1
        THEN [state |-> "released", amount |-> RequestedAmount,
              gatewayReference |-> PayRef(1), reconciled |-> FALSE, docs |-> 1]
        ELSE NoEscrow]
  /\ ledger = {Tx(1, RequestedAmount, "escrow", "success", PayRef(1)),
               Tx(1, RequestedAmount, "release", "success", EarlierRelease)}
  /\ gateway = [b \in Bookings |->
        [initialize |-> 0, payout |-> IF b = 1 THEN 1 ELSE 0,
         paid |-> IF b = 1 THEN 1 ELSE 0, refund |-> 0, refunded |-> 0]]
  /\ calls = [p \in Procs |-> Idle]
  /\ clock = 0
  /\ last = NoResult
  /\ disputes = [b \in Bookings |-> NoDispute]
  /\ report = NoReport

\* the calls that follow the release: those of the escrow service and the
\* settlement, one after the other
ReleasedNext ==
  \E p \in {1} :
    \/ initializeEscrow(p)
    \/ initializeCommit(p)
    \/ handleWebhook(p)
    \/ webhookProcess(p)
    \/ webhookCommit(p)
    \/ releaseFunds(p)
    \/ releaseCommit(p)
    \/ refundFunds(p)
    \/ refundCommit(p)
    \/ settleEscrow(p)
ReleasedSpec == ReleasedInit /\ [][ReleasedNext]_vars

\* Transactions that the scan is there to find: those of bookings that no
\* longer exist, and a settled payment of booking 1 whose Escrow is missing
OldRef(i) == [k |-> "old", n |-> i]
DriftTxs ==
  {Tx(NumBookings + 1, TotalAmount, "escrow", "success", OldRef(i)) : i \in 1..NumOrphans}
    \cup {Tx(1, TotalAmount, "escrow", "success", OldRef(0))}

\* the store when reconciliation runs: the ledger may hold drifted Transactions
ReconInit ==
  /\ bookings = [b \in Bookings |->
        [paymentStatus |-> "unpaid", status |-> "pending", paymentReleased |-> FALSE,
         escrowAmount |-> 0, totalAmount |-> TotalAmount,
         paymentReference |-> IF b = 1 THEN PayRef(1) ELSE NoRef]]
  /\ escrows = [b \in Bookings |-> NoEscrow]
  /\ ledger \in SUBSET DriftTxs
  /\ gateway = [b \in Bookings |->
        [initialize |-> 0, payout |-> 0, paid |-> 0, refund |-> 0, refunded |-> 0]]
  /\ calls = [p \in Procs |-> Idle]
  /\ clock = 0
  /\ last = NoResult
  /\ disputes = [b \in Bookings |-> NoDispute]
  /\ report = NoReport

\* the escrow service together with the reconciliation service
ReconNext ==
  \E p \in {1} : Step(p) \/ reconcileTransactions(p)
ReconSpec == ReconInit /\ [][ReconNext]_vars

\* the escrow service together with the dispute service
DisputeNext ==
  \E p \in {1} : Step(p) \/ createDispute(p) \/ resolveDispute(p)
DisputeSpec == DisputeInit /\ [][DisputeNext]_vars

\* ------------------------------------------------------------ properties

\* the Transactions stored under a reference with a given status
TxWith(l, ref, status) == {t \in l : t.reference = ref /\ t.status = status}

\* C1: once a signature-valid success webhook for reference R has been processed
\* for a booking (accepted, whether applied or answered already_processed), the
\* ledger holds exactly one Transaction with reference R and status success.
C1_IdempotentWebhook ==
  (/\ AllIdle
   /\ last.op = "webhook" /\ last.success /\ last.b # 0
   /\ last.reason \in {"", "already_processed"})
    => Cardinality(TxWith(ledger, last.ref, "success")) = 1

\* C2: of two releaseFunds calls in flight on the same booking, at most one has
\* had a successful gateway payout.
C2_NoDoubleRelease ==
  \A p \in Procs, q \in Procs :
    (/\ p # q
     /\ calls[p].pc = "commit" /\ calls[p].op = "release"
     /\ calls[q].pc = "commit" /\ calls[q].op = "release"
     /\ calls[p].b = calls[q].b)
      => ~(calls[p].ok /\ calls[q].ok)

\* C3: a handleWebhook call whose adapter.verify threw or returned a status other
\* than success does not move an escrow to held.
C3_HeldOnlyIfVerified ==
  [][\A p \in Procs :
       (/\ calls[p].pc = "commit" /\ calls[p].op = "webhook"
        /\ ~calls[p].ok
        /\ calls'[p].pc = "idle")
         => \A b \in Bookings :
              escrows'[b].state = "held" => escrows[b].state = "held"]_vars

\* C4: an escrow in released, refunded or cancelled keeps that state under every
\* operation.
C4_TerminalStates ==
  [][\A b \in Bookings :
       escrows[b].state \in {"released", "refunded", "cancelled"}
         => escrows'[b].state = escrows[b].state]_vars

\* C5: a releaseFunds call that got a payout result records exactly one release
\* Transaction whose status is success when the payout succeeded and failed
\* otherwise; it leaves the escrow released when the payout succeeded and disputed
\* otherwise, never held; on success booking.paymentStatus is released.
C5_ReleaseRecorded ==
  [][\A p \in Procs :
       LET c == calls[p]
           b == c.b
       IN
       /\ (c.pc = "idle" /\ calls'[p].pc = "commit" /\ calls'[p].op = "release")
            => LET e == calls'[p].b IN
               /\ gateway'[e].payout = gateway[e].payout + 1
               /\ calls'[p].ok <=> (gateway'[e].paid = gateway[e].paid + 1)
       /\ (c.pc = "commit" /\ c.op = "release" /\ calls'[p].pc = "idle")
            => /\ \E t \in ledger' \ ledger :
                    /\ ledger' = ledger \cup {t}
                    /\ t.type = "release" /\ t.bookingId = b /\ t.reference = c.ref
                    /\ t.status = IF c.ok THEN "success" ELSE "failed"
               /\ escrows'[b].state = IF c.ok THEN "released" ELSE "disputed"
               /\ c.ok => bookings'[b].paymentStatus = "released"
               /\ ~last'.threw /\ last'.success = c.ok]_vars

\* a release whose payout failed has been recorded and the escrow is disputed
C5_Witness ==
  /\ AllIdle
  /\ last.op = "release" /\ ~last.threw /\ ~last.success
  /\ escrows[last.b].state = "disputed"
  /\ TxWith(ledger, last.ref, "failed") # {}

\* C6: a refundFunds call that got a refund result records exactly one refund
\* Transaction whose status is success when the refund succeeded and failed
\* otherwise; it leaves the escrow refunded when the refund succeeded and disputed
\* otherwise; on success booking.paymentStatus is refunded.
C6_RefundRecorded ==
  [][\A p \in Procs :
       LET c == calls[p]
           b == c.b
       IN
       /\ (c.pc = "idle" /\ calls'[p].pc = "commit" /\ calls'[p].op = "refund")
            => LET e == calls'[p].b IN
               /\ gateway'[e].refund = gateway[e].refund + 1
               /\ calls'[p].ok <=> (gateway'[e].refunded = gateway[e].refunded + 1)
       /\ (c.pc = "commit" /\ c.op = "refund" /\ calls'[p].pc = "idle")
            => /\ \E t \in ledger' \ ledger :
                    /\ ledger' = ledger \cup {t}
                    /\ t.type = "refund" /\ t.bookingId = b /\ t.reference = c.ref
                    /\ t.status = IF c.ok THEN "success" ELSE "failed"
               /\ escrows'[b].state = IF c.ok THEN "refunded" ELSE "disputed"
               /\ c.ok => bookings'[b].paymentStatus = "refunded"
               /\ ~last'.threw /\ last'.success = c.ok]_vars

\* a refund whose gateway refund succeeded has been recorded
C6_Witness ==
  /\ AllIdle
  /\ last.op = "refund" /\ ~last.threw /\ last.success
  /\ escrows[last.b].state = "refunded"
  /\ bookings[last.b].paymentStatus = "refunded"
  /\ TxWith(ledger, last.ref, "success") # {}

\* C7: releaseFunds and refundFunds reach the gateway only for an escrow in held,
\* pending or disputed; called for no booking, for a booking without escrow or
\* for an escrow in another state they throw, the gateway is not called and
\* Escrow, Booking and Transaction are unchanged.
C7_GuardRejects ==
  [][/\ \A p \in Procs :
          (calls[p].pc = "idle" /\ calls'[p].pc = "commit"
             /\ calls'[p].op \in {"release", "refund"})
            => escrows[calls'[p].b].state \in {"held", "pending", "disputed"}
     /\ (/\ AllIdle /\ AllIdle'
         /\ last'.op \in {"release", "refund"}
         /\ \/ last'.b = 0
            \/ escrows[last'.b].state \notin {"held", "pending", "disputed"})
          => last'.threw /\ db' = db /\ gateway' = gateway]_vars

\* releaseFunds or refundFunds has thrown for a cancelled escrow
C7_Witness ==
  /\ AllIdle
  /\ last.op \in {"release", "refund"} /\ last.threw /\ last.b # 0
  /\ escrows[last.b].state = "cancelled"
  /\ last.reason \in {"Escrow not in releasable state", "Escrow not in refundable state"}

C9_InitializeRecords ==
  [][\A p \in Procs :
       LET c == calls[p]
           b == c.b
       IN
       (c.pc = "commit" /\ c.op = "init" /\ calls'[p].pc = "idle" /\ last'.success)
         => /\ escrows'[b].state = "pending" /\ escrows'[b].amount = c.amount
            /\ c.amount \in Amounts
            /\ ledger \subseteq ledger'
            /\ ledger' \ ledger = {[bookingId |-> b, amount |-> c.amount, type |-> "escrow",
                                    status |-> "pending", reference |-> c.ref]}
            /\ bookings'[b].paymentStatus = "pending"
            /\ last'.ref = c.ref /\ c.ref # NoRef /\ last'.b = b]_vars

\* initializeEscrow has succeeded
C9_Witness ==
  /\ AllIdle
  /\ last.op = "init" /\ last.success
  /\ escrows[last.b].state = "pending"
  /\ TxWith(ledger, last.ref, "pending") # {}

\* C10: while a Transaction with the webhook's reference and status success
\* exists, handleWebhook for a success event changes no Escrow, Booking or
\* Transaction in any of its steps and answers success with already_processed.
C10_AlreadyProcessed ==
  [][\A p \in Procs :
       /\ (/\ calls[p].pc = "idle"
           /\ calls'[p].pc = "verify"
           /\ TxWith(ledger, calls'[p].ref, "success") # {})
            => db' = db
       /\ (/\ calls[p].pc = "verify" /\ calls'[p].pc # "verify"
           /\ TxWith(ledger, calls[p].ref, "success") # {}
           /\ ~(calls'[p].pc = "idle" /\ last'.reason \in {"failure", "noop"}))
            => /\ calls'[p].pc = "idle"
               /\ last'.success /\ last'.reason = "already_processed"
               /\ db' = db]_vars

\* C11: a webhook whose signature does not verify is turned down before any
\* processing, at handleWebhook and at the /api/webhooks route: no call goes on
\* with an unverified signature, and the rejection changes no Booking, Escrow or
\* Transaction and reaches no gateway.
C11_BadSignatureRejected ==
  [][/\ \A p \in Procs :
          (calls[p].pc = "idle" /\ calls'[p].pc = "verify") => calls'[p].sig
     /\ (last'.op \in {"webhook", "route"} /\ ~last'.arg.sig)
          => /\ db' = db /\ gateway' = gateway
             /\ ~last'.success
             /\ AllIdle']_vars

\* a webhook with a bad signature has been turned down while an escrow exists
C11_Witness ==
  /\ last.op \in {"webhook", "route"} /\ ~last.arg.sig
  /\ \E b \in Bookings : HasEscrow(b)

\* C12: the webhook path never passes a failure on to the gateway: handleWebhook
\* returns a value and does not throw, and every webhook endpoint answers 200.
C12_WebhookAlways200 ==
  /\ last.op = "webhook" => ~last.threw
  /\ last.op = "route" => last.reason = "200"

\* a settleEscrow call has run from start to end in this step,
\* for an existing booking whose pro is a stored User
SettleStep ==
  /\ AllIdle /\ AllIdle'
  /\ last'.op = "settle" /\ last'.b # 0
  /\ last'.reason # "Pro user not found"

\* the payout Transactions of booking b in a ledger
Payouts(l, b) == {t \in l : t.bookingId = b /\ t.type = "payout"}

\* C13: settlement timing.  For a completed booking with exactly one of
\* customerReviewed and proReviewed set and a held escrow, settleEscrow changes
\* nothing while less than 3 days have passed since the completion, and releases
\* the escrow once 3 days or more have passed since the completion, whatever
\* happened to the booking's updatedAt since.
C13_SettlementTiming ==
  [][(/\ SettleStep
      /\ escrows[last'.b].state = "held"
      /\ last'.arg.reviews = 1)
       => IF ~last'.arg.completedLongAgo
          THEN db' = db /\ ~last'.threw
          ELSE ~last'.threw /\ escrows'[last'.b].state = "released"]_vars

\* C14: settleEscrow for a booking whose escrow is released changes no Escrow,
\* Booking or Transaction and does not fail.
C14_SettleAfterRelease ==
  [][(SettleStep /\ escrows[last'.b].state = "released")
       => db' = db /\ ~last'.threw]_vars

C16_SettleReleases ==
  [][(/\ SettleStep
      /\ escrows[last'.b].state = "held"
      /\ last'.arg.reviews = 2)
       => /\ escrows'[last'.b].state = "released"
          /\ bookings'[last'.b].paymentReleased
          /\ \E t \in ledger' \ ledger :
               /\ ledger' = ledger \cup {t}
               /\ t = Tx(last'.b, escrows[last'.b].amount, "payout", "success",
                         t.reference)]_vars

\* a resolveDispute call has run in this step for the stored dispute of a booking
\* whose escrow holds the funds
ResolveStep(resolution) ==
  /\ AllIdle /\ AllIdle'
  /\ last'.op = "resolve" /\ last'.b # 0
  /\ last'.arg.resolution = resolution
  /\ disputes[last'.b].status = "open"
  /\ escrows[last'.b].state \in {"held", "disputed"}

\* the Transactions of a type that a step adds for booking b
Added(b, type) == {t \in ledger' \ ledger : t.bookingId = b /\ t.type = type}

\* C17: createDispute for an existing booking whose escrow is held stores a
\* Dispute in status open and moves the booking's Escrow to disputed;
\* createDispute for a missing booking throws and stores nothing.
C17_CreateDispute ==
  [][(AllIdle /\ AllIdle' /\ last'.op = "dispute")
       => IF last'.b = 0
          THEN last'.threw /\ db' = db /\ disputes' = disputes
          ELSE (escrows[last'.b].state = "held" /\ disputes[last'.b].status = "none")
                 => /\ disputes'[last'.b].status = "open"
                    /\ escrows'[last'.b].state = "disputed"]_vars

ReconStep ==
  /\ AllIdle /\ AllIdle'
  /\ last'.op = "reconcileTransactions" /\ ~last'.threw
  /\ report'.stored

\* the stored issues of a type about a Transaction and a booking
Reported(r, type, ref, b) ==
  {i \in 1..Len(r.issues) : r.issues[i] = Issue(type, ref, b)}

\* the issues that the Transactions in S and the Escrows of the bookings in B give
RECURSIVE IssuesPresent(_, _)
IssuesPresent(S, B) ==
  IF S # {}
  THEN LET t == CHOOSE x \in S : TRUE
       IN Len(txIssues(t)) + IssuesPresent(S \ {t}, B)
  ELSE IF B # {}
  THEN LET b == CHOOSE x \in B : TRUE
       IN Len(escrowIssues(b)) + IssuesPresent(S, B \ {b})
  ELSE 0

Smaller(a, b) == IF a < b THEN a ELSE b

\* C21: when the ledger holds a Transaction of type escrow and status success
\* whose booking exists and has no Escrow, the report of a reconcileTransactions
\* run over the whole store, with the cap on issues not reached, holds exactly
\* one txn_missing_escrow issue naming that Transaction.
C21_MissingEscrowReported ==
  [][(ReconStep /\ last'.arg.limit = 5000 /\ report'.totalIssues < MAX_ISSUES)
       => \A t \in ledger :
            (/\ t.type = "escrow" /\ t.status = "success"
             /\ t.bookingId \in Bookings /\ ~HasEscrow(t.bookingId))
              => Cardinality(Reported(report', "txn_missing_escrow", t.reference,
                                      t.bookingId)) = 1]_vars

\* C22: a reconcileTransactions run over the whole store, with the cap not
\* reached, reports escrow_without_txn for an Escrow exactly when the escrow is
\* held and the ledger has no successful payment Transaction (type escrow, status
\* success) of its booking.
C22_EscrowWithoutTxn ==
  [][(ReconStep /\ last'.arg.limit = 5000 /\ report'.totalIssues < MAX_ISSUES)
       => \A b \in Bookings :
            HasEscrow(b)
              => (Reported(report', "escrow_without_txn", NoRef, b) # {}
                    <=> /\ escrows[b].state = "held"
                        /\ ~\E t \in ledger :
                              /\ t.bookingId = b /\ t.type = "escrow"
                              /\ t.status = "success")]_vars

\* C23: a run of reconcileTransactions or of reconcileEscrows changes no
\* Booking, no Transaction and no field of an Escrow other than reconciled.
C23_ReconciliationReadOnly ==
  [][(AllIdle /\ AllIdle' /\ last'.op \in {"reconcile", "reconcileTransactions"})
       => /\ bookings' = bookings
          /\ ledger' = ledger
          /\ \A b \in Bookings :
               [escrows'[b] EXCEPT !.reconciled = FALSE]
                 = [escrows[b] EXCEPT !.reconciled = FALSE]]_vars

\* C24: the report of a run stores at most MAX_ISSUES issues, counts every
\* Transaction and every Escrow up to limit as checked, and its totalIssues is
\* the number of issues present in the store when the limit covers the store.
C24_CapKeepsCounting ==
  [][ReconStep
       => /\ Len(report'.issues) <= MAX_ISSUES
          /\ report'.txChecked = Smaller(last'.arg.limit, Cardinality(ledger))
          /\ report'.escrowsChecked
               = Smaller(last'.arg.limit, Cardinality({b \in Bookings : HasEscrow(b)}))
          /\ last'.arg.limit = 5000
               => report'.totalIssues
                    = IssuesPresent(ledger, {b \in Bookings : HasEscrow(b)})]_vars

\* ------------------------------------------------------------ C25
\* a call that runs recordTransaction finishes in this step, and the reference it
\* records under is already in the ledger
RecordsUnderExisting(p) ==
  /\ calls[p].pc \in {"commit", "verify"}
  /\ calls'[p].pc = "idle"
  /\ \E t \in ledger : t.reference = calls[p].ref

Settled(t, u) ==
  /\ t.status = "pending"
  /\ u.status \in {"success", "failed"}
  /\ u = [t EXCEPT !.status = u.status]

\* C26: the ledger is append-only: no step removes a Transaction or changes the
\* type, amount, bookingId or reference of one, and the only write to a stored
\* Transaction takes its status from pending to success or to failed.
C26_AppendOnly ==
  [][ \A t \in ledger : t \in ledger' \/ \E u \in ledger' : Settled(t, u) ]_vars

\* ------------------------------------------------------------ C27
\* C27: in every reachable state there is at most one Escrow per booking, also
\* when concurrent initializeEscrow calls and webhook deliveries each find no
\* escrow for the booking and create one.
C27_OneEscrowPerBooking ==
  \A b \in Bookings : escrows[b].docs <= 1

\* a webhook delivery to the route found no escrow under its reference, tried to
\* create one for a booking that has one, and failed on the duplicate key
C27_Witness ==
  /\ last.op = "route" /\ last.reason = "500" /\ last.b \in Bookings
  /\ escrows[last.b].docs = 1

\* ------------------------------------------------------------ C28
\* C28: the guard on an Escrow's state and the write of its new state are one
\* atomic unit: a call that changes the state of an escrow changes the state it
\* read, so a state that another call committed after the read (released by
\* releaseFunds, refunded by refundFunds) is never overwritten by a handleWebhook
\* that loaded the escrow before that commit.  last is the release or refund
\* that committed while the webhook was in flight.
C28_NoStaleOverwrite ==
  [][ \A p \in Procs :
        LET c == calls[p] IN
        ( /\ c.op = "webhook"
          /\ calls'[p].pc = "idle"
          /\ c.b \in Bookings
          /\ last.op \in {"release", "refund"} /\ last.b = c.b /\ ~last.threw
          /\ escrows'[c.b].state # escrows[c.b].state )
        => escrows[c.b].state = c.loadedE.state ]_vars

\* ------------------------------------------------------------ C29
\* C29: a write sequence over Escrow, Transaction and Booking is all-or-nothing:
\* when a call of initializeEscrow, handleWebhook, releaseFunds, refundFunds or
\* settleEscrow fails partway (it throws, or handleWebhook returns
\* success: false), none of its writes remains: its last step writes nothing and
\* an earlier step of the call has written nothing (eff of a webhook call: the
\* upsert created the escrow).
C29_AllOrNothing ==
  [][ \A p \in Procs :
        LET c == calls[p] IN
        ( /\ c.pc # "idle"
          /\ calls'[p].pc = "idle"
          /\ last'.op \in {"init", "webhook", "release", "refund", "settle"}
          /\ last'.threw \/ (last'.op = "webhook" /\ ~last'.success) )
        => /\ db' = db
           /\ c.op = "webhook" => ~c.eff ]_vars

\* ------------------------------------------------------------ C30
\* the call that returned in this step failed in its gateway call: adapter.initialize,
\* adapter.payout or adapter.refund rejected (network error, timeout)
GatewayCallFailed ==
  /\ last' # last
  /\ last'.reason \in {"initialize failed", "payout failed", "refund failed"}

\* the type of the Transaction each of the three calls records
AttemptType(op) ==
  IF op = "init" THEN "escrow" ELSE IF op = "release" THEN "release" ELSE "refund"

\* C30: when the gateway call of initializeEscrow, releaseFunds or refundFunds
\* fails with a network error or timeout, the error reaches the caller and a
\* Transaction recording the attempt, pending or failed, is in the ledger
\* afterwards for reconciliation to find.
C30_AttemptRecorded ==
  [][ GatewayCallFailed =>
        /\ last'.threw
        /\ \E t \in ledger' \ ledger :
             /\ t.bookingId = last'.b
             /\ t.type = AttemptType(last'.op)
             /\ t.status \in {"pending", "failed"} ]_vars

\* ------------------------------------------------------------ C31
\* C31: an Escrow enters cancelled only from pending: no step moves an escrow
\* that is held, disputed, released or refunded to cancelled (a failure webhook
\* that arrives after the success webhook of the booking included).
C31_CancelledOnlyFromPending ==
  [][ \A b \in Bookings :
        (escrows'[b].state = "cancelled" /\ escrows[b].state # "cancelled")
        => escrows[b].state = "pending" ]_vars

\* ------------------------------------------------------------ C32
\* C32: once an Escrow has left pending its amount never changes: no webhook
\* delivery, release, refund or reconciliation step writes another value to
\* Escrow.amount.  Stated for the escrows that hold or have held funds.
C32_AmountImmutable ==
  [][ \A b \in Bookings :
        escrows[b].state \in {"held", "disputed", "released", "refunded"}
        => escrows'[b].amount = escrows[b].amount ]_vars

Branch(p) ==
  IF calls'[p].pc = "commit" \/ last'.reason = "already_processed" THEN "success"
  ELSE IF last'.reason = "noop" THEN "unhandled"
  ELSE "failure"

\* C34: events are classified by the enumerated event-type table alone: an event
\* whose type is in the failure set is never processed as a success, and an
\* event whose type is in neither set is processed neither as success nor as
\* failure, whatever the status field of its body is.  Stated for the
\* deliveries that resolve to a booking.
C34_ClassifiedByTable ==
  [][ \A p \in Procs :
        (calls[p].pc = "verify" /\ calls'[p].pc # "verify" /\ calls[p].b \in Bookings)
        => /\ calls[p].ev \in failureEvents => Branch(p) # "success"
           /\ calls[p].ev \notin successEvents \cup failureEvents
                => Branch(p) = "unhandled" ]_vars

\* ------------------------------------------------------------ C35
\* C35: autoSettlePendingEscrows calls settleEscrow for the booking of every
\* escrow that is held at the time of the scan; a failure for one booking is
\* caught, and the batch itself never throws.
C35_AutoSettleVisitsHeld ==
  [][ (last' # last /\ last'.op = "autosettle")
      => /\ ~last'.threw
         /\ {b \in Bookings : escrows[b].state = "held"} \subseteq last'.arg.visited ]_vars

C37_RunStoresReport ==
  [][ (last' # last /\ last'.op = "reconcileTransactions")
      => /\ ~last'.threw
         /\ report'.stored
         /\ report'.txChecked <= last'.arg.limit
         /\ report'.escrowsChecked <= last'.arg.limit ]_vars

\* ------------------------------------------------------------ C38
\* the successful Transactions of booking b with one of the types
Successful(b, types) ==
  {t \in ledger : t.bookingId = b /\ t.type \in types /\ t.status = "success"}

\* C38: the funds of a booking are never both paid out and refunded: the ledger
\* never holds a successful release (or payout) Transaction and a successful
\* refund Transaction of the same booking.
C38_NotPaidOutAndRefunded ==
  \A b \in Bookings :
    Successful(b, {"release", "payout"}) = {} \/ Successful(b, {"refund"}) = {}

\* ------------------------------------------------------------ C39
\* the booking's quick view agrees with its escrow
Projection(bs, es) ==
  \A b \in Bookings :
    /\ (bs[b].paymentStatus = "released" \/ bs[b].paymentReleased)
         => es[b].state = "released"
    /\ bs[b].paymentStatus = "refunded" => es[b].state = "refunded"

\* C39: the booking projection never drifts from the escrow: a completed
\* initializeEscrow, handleWebhook, releaseFunds, refundFunds, settleEscrow or
\* reconcileEscrows leaves no booking with paymentStatus released (or
\* paymentReleased) whose escrow is not released, and none with paymentStatus
\* refunded whose escrow is not refunded, where there was none before.
C39_ProjectionInSync ==
  [][ ( /\ Projection(bookings, escrows)
        /\ last' # last
        /\ last'.op \in {"init", "webhook", "release", "refund", "settle", "reconcile"} )
      => Projection(bookings', escrows') ]_vars

\* ------------------------------------------------------------ C40
\* C40: a signature-valid webhook whose event is neither a success nor a failure
\* event is a pure no-op: handleWebhook returns the noop result, and from the
\* start of the call to its return bookings, escrows and the ledger are not
\* written by it, also when the booking exists and has no escrow yet.  eff: the
\* call's upsert has created the escrow of the booking.
C40_UnhandledEventNoop ==
  [][ \A p \in Procs :
        (calls[p].pc = "verify" /\ last' # last /\ last'.reason = "noop")
        => /\ db' = db
           /\ ~calls[p].eff ]_vars

====
